---- MODULE Spec2Model ----
(***************************************************************************)
(* Model of src/main.py (moysklad sale monitor).                           *)
(*                                                                         *)
(* Specifications over one set of variables:                               *)
(*   Spec         - main(): serialized runs of the monitor against the     *)
(*                  state file, one step per collaborator call, at every   *)
(*                  time of day, over a catalog of one product.            *)
(*   SnapshotSpec - the same steps at 08:30 over a catalog of two          *)
(*                  products.                                              *)
(*   ChunkSpec    - chunk_lines, one step per loop iteration.              *)
(*   PriceSpec    - parse_price_to_rub applied to a bounded entry.         *)
(*   ExtractSpec  - extract_rows applied to a bounded JSON-like value.     *)
(*   PagSpec /    - the while-loop of iter_products against an arbitrary   *)
(*   FairPagSpec    page-fetch collaborator.                               *)
(* A specification leaves the variables of the other ones at their idle    *)
(* values.                                                                 *)
(***************************************************************************)
EXTENDS Integers, Sequences, FiniteSets, TLC

VARIABLES
    \* ---- main() ----
    disk,          \* the state file: [exists, content]
    state,         \* the in-memory state dict of the current run
    loaded,        \* history: the value load_state returned in this run
    now,           \* [day, hour, minute] of datetime.now(MSK) in this run
    cookie,        \* whether MOYSKLAD_COOKIE is non-empty in this run
    pc,            \* position of main()
    target_cats,   \* categories still to be visited by the for-loop
    current,       \* dict id -> record being built in this run
    cur_order,     \* insertion order of current's keys
    zero_debug,    \* len(zero_debug_lines)
    added,         \* list `added`
    changed,       \* list `changed`
    outbox,        \* messages of the running send loop, not yet sent
    sent,          \* history: kinds of the messages delivered in this run
    saves,         \* history: calls of save_state in this run
    fetches,       \* history: calls of iter_products in this run
    exit_path,     \* history: how the run ended
    abort_at,      \* history: where an exception left main(), if one did
    reached_diff,  \* history: this run executed the diff (lines 397-409)
    prev_diff,     \* history: the run before this one executed the diff
    prev_dropped,  \* history: ids persisted before the previous run and
                   \*          missing from the snapshot it built
    \* ---- chunk_lines ----
    c_lines, c_max, c_i, c_chunks, c_cur, c_cur_len, c_pc,
    \* ---- parse_price_to_rub ----
    p_entry, p_result, p_pc,
    \* ---- extract_rows ----
    x_data, x_result, x_pc,
    \* ---- iter_products ----
    i_pc, i_offset, i_rows, i_all

mainVars == <<disk, state, loaded, now, cookie, pc, target_cats, current,
              cur_order, zero_debug, added, changed, outbox, sent, saves,
              fetches, exit_path, abort_at, reached_diff, prev_diff, prev_dropped>>
chunkVars == <<c_lines, c_max, c_i, c_chunks, c_cur, c_cur_len, c_pc>>
priceVars == <<p_entry, p_result, p_pc>>
extractVars == <<x_data, x_result, x_pc>>
pagVars == <<i_pc, i_offset, i_rows, i_all>>
vars == <<mainVars, chunkVars, priceVars, extractVars, pagVars>>

Min(a, b) == IF a < b THEN a ELSE b

Range(s) == {s[k] : k \in 1..Len(s)}

\* Sequences over S of length at most n.
SeqsUpTo(S, n) == UNION {[1..k -> S] : k \in 0..n}

(***************************************************************************)
(* chunk_lines (src/main.py 188-199).  A string is a sequence of           *)
(* one-character strings; the lines fed in hold no newline.                *)
(***************************************************************************)
MaxLines == 3
MaxLineLen == 4
MaxBudget == 5

NL == "\n"

LineOfLen(n) == [k \in 1..n |-> "a"]

LineSet == {LineOfLen(n) : n \in 0..MaxLineLen}

\* "\n".join(ls)
RECURSIVE JoinLines(_)
JoinLines(ls) ==
    IF ls = <<>> THEN <<>>
    ELSE IF Len(ls) = 1 THEN ls[1]
    ELSE ls[1] \o <<NL>> \o JoinLines(Tail(ls))

\* add_len without the separator
AddLenNoSeparator(line) == Len(line)

\* add_len = len(line) + 1
AddLen(line) == Len(line) + 1

\* if cur and cur_len + add_len > max_chars
ShouldFlush(cur, cur_len, add_len, max_chars) ==
    cur # <<>> /\ cur_len + add_len > max_chars

ChunkIdle ==
    /\ c_lines = <<>> /\ c_max = 0 /\ c_i = 1 /\ c_chunks = <<>>
    /\ c_cur = <<>> /\ c_cur_len = 0 /\ c_pc = "idle"

ChunkInit ==
    /\ c_lines \in SeqsUpTo(LineSet, MaxLines)
    /\ c_max \in 0..MaxBudget
    /\ c_i = 1
    /\ c_chunks = <<>>
    /\ c_cur = <<>>
    /\ c_cur_len = 0
    /\ c_pc = "loop"

\* One iteration of `for line in lines` (lines 190-196).
ChunkStep ==
    /\ c_pc = "loop"
    /\ c_i <= Len(c_lines)
    /\ LET line == c_lines[c_i]
           add_len == AddLen(line)
           flush == ShouldFlush(c_cur, c_cur_len, add_len, c_max)
       IN /\ c_chunks' = IF flush THEN Append(c_chunks, JoinLines(c_cur))
                                  ELSE c_chunks
          /\ c_cur' = Append(IF flush THEN <<>> ELSE c_cur, line)
          /\ c_cur_len' = (IF flush THEN 0 ELSE c_cur_len) + add_len
    /\ c_i' = c_i + 1
    /\ UNCHANGED <<c_lines, c_max, c_pc>>
    /\ UNCHANGED <<mainVars, priceVars, extractVars, pagVars>>

\* After the loop (lines 197-199).
ChunkFinish ==
    /\ c_pc = "loop"
    /\ c_i > Len(c_lines)
    /\ c_chunks' = IF c_cur # <<>> THEN Append(c_chunks, JoinLines(c_cur))
                                   ELSE c_chunks
    /\ c_pc' = "done"
    /\ UNCHANGED <<c_lines, c_max, c_i, c_cur, c_cur_len>>
    /\ UNCHANGED <<mainVars, priceVars, extractVars, pagVars>>

\* The lines of a block: block.split("\n")
RECURSIVE SplitFrom(_, _, _)
SplitFrom(s, k, acc) ==
    IF k > Len(s) THEN <<acc>>
    ELSE IF s[k] = NL THEN <<acc>> \o SplitFrom(s, k + 1, <<>>)
    ELSE SplitFrom(s, k + 1, Append(acc, s[k]))

SplitNL(s) == SplitFrom(s, 1, <<>>)

RECURSIVE FlattenBlocks(_)
FlattenBlocks(blocks) ==
    IF blocks = <<>> THEN <<>>
    ELSE SplitNL(Head(blocks)) \o FlattenBlocks(Tail(blocks))

\* C6: when chunk_lines returns, the blocks split back into exactly the input
\* lines in the input order, and every block is at most max_chars characters
\* long unless it is a single line that is itself longer than max_chars.
C6_ChunkPartition ==
    c_pc = "done" =>
        /\ FlattenBlocks(c_chunks) = c_lines
        /\ \A k \in 1..Len(c_chunks) :
              \/ Len(c_chunks[k]) <= c_max
              \/ /\ Len(SplitNL(c_chunks[k])) = 1
                 /\ Len(c_chunks[k]) > c_max

\* A finished call with a block of several lines and an oversized single line.
C6_Witness ==
    /\ c_pc = "done"
    /\ \E k \in 1..Len(c_chunks) : Len(SplitNL(c_chunks[k])) > 1
    /\ \E k \in 1..Len(c_chunks) : Len(c_chunks[k]) > c_max

(***************************************************************************)
(* parse_price_to_rub (src/main.py 141-170).                               *)
(* A JSON value is a record [t, v]: t its type, v its number (0 when it    *)
(* has none); a mapping is [t |-> "map", v |-> 0, has, sub], has telling   *)
(* whether it holds the key "value" and sub what it holds there.  Numbers  *)
(* are whole; a price is kept in hundredths of a rouble.                   *)
(***************************************************************************)
MaxFields == 2

Num(n) == [t |-> "num", v |-> n]
NumStr(n) == [t |-> "numstr", v |-> n]     \* a string float() accepts
BadStr == [t |-> "badstr", v |-> 0]        \* a string float() rejects
Null == [t |-> "null", v |-> 0]
JTrue == [t |-> "bool", v |-> 1]           \* True: an int for isinstance
JList == [t |-> "list", v |-> 0]

Scalars == {Num(50), Num(999), Num(1000), NumStr(50), BadStr, Null, JTrue, JList}

MapWith(sub) == [t |-> "map", v |-> 0, has |-> TRUE, sub |-> sub]
MapWithout == [t |-> "map", v |-> 0, has |-> FALSE, sub |-> Null]

JsonValues ==
    Scalars \cup {MapWithout}
            \cup {MapWith(s) : s \in {Num(1000), NumStr(50), BadStr, Null}}

\* "price" first, then the tuple of line 146.
PriceAliases ==
    <<"price", "salePrice", "minPrice", "retail_price", "retailPrice",
      "price_value", "priceValue">>

\* Entries holding at most MaxFields of the alias keys.
PriceEntries ==
    UNION {[K -> JsonValues] :
              K \in {S \in SUBSET Range(PriceAliases) : Cardinality(S) <= MaxFields}}

NoneResult == [some |-> FALSE, v |-> 0]
Rub(cents) == [some |-> TRUE, v |-> cents]

\* lines 142-148: the values of the alias keys present in p, in alias order
RECURSIVE CandidatesFrom(_, _)
CandidatesFrom(p, k) ==
    IF k > Len(PriceAliases) THEN <<>>
    ELSE (IF PriceAliases[k] \in DOMAIN p THEN <<p[PriceAliases[k]]>> ELSE <<>>)
         \o CandidatesFrom(p, k + 1)

Candidates(p) == CandidatesFrom(p, 1)

\* isinstance(c, dict) and "value" in c
IsValueMap(c) == c.t = "map" /\ c.has

\* isinstance(c, (int, float))
IsNumber(c) == c.t \in {"num", "bool"}

\* a scan that goes on past a mapping whose "value" float() would reject
RECURSIVE ScanSkipping(_)
ScanSkipping(cands) ==
    IF cands = <<>> THEN Null
    ELSE IF IsValueMap(Head(cands))
              /\ Head(cands).sub.t \in {"num", "bool", "numstr"}
         THEN Head(cands).sub
    ELSE IF IsNumber(Head(cands)) THEN Head(cands)
    ELSE ScanSkipping(Tail(cands))

\* lines 150-157: value after the loop (Null is Python's None)
RECURSIVE ScanCandidates(_)
ScanCandidates(cands) ==
    IF cands = <<>> THEN Null
    ELSE IF IsValueMap(Head(cands)) THEN Head(cands).sub
    ELSE IF IsNumber(Head(cands)) THEN Head(cands)
    ELSE ScanCandidates(Tail(cands))

\* float(value) succeeds (lines 162-165)
FloatAccepts(value) == value.t \in {"num", "bool", "numstr"}

\* lines 167-170, in hundredths: v >= 1000 is taken as kopecks
UnitNormalize(v) == IF v >= 1000 THEN v ELSE v * 100

\* lines 159-170
parse_price_to_rub(p) ==
    LET value == ScanCandidates(Candidates(p))
    IN IF value.t = "null" THEN NoneResult
       ELSE IF ~FloatAccepts(value) THEN NoneResult
       ELSE Rub(UnitNormalize(value.v))

PriceIdle == p_entry = <<>> /\ p_result = NoneResult /\ p_pc = "idle"

PriceInit ==
    /\ p_entry \in PriceEntries
    /\ p_result = NoneResult
    /\ p_pc = "call"

ParsePrice ==
    /\ p_pc = "call"
    /\ p_result' = parse_price_to_rub(p_entry)
    /\ p_pc' = "done"
    /\ UNCHANGED p_entry
    /\ UNCHANGED <<mainVars, chunkVars, extractVars, pagVars>>

\* What C8 calls "yields a numeric value": a number, or a mapping whose
\* "value" sub-field is a number (a string that reads as a number counted
\* as one).
YieldsNumeric(c) ==
    IsNumber(c) \/ (IsValueMap(c) /\ c.sub.t \in {"num", "bool", "numstr"})

NumericOf(c) == IF IsNumber(c) THEN c.v ELSE c.sub.v

\* C8 as stated: the result is absent iff no present candidate yields a
\* numeric value; otherwise it is the unit-normalized value of the first
\* candidate, in alias order, that yields one.
C8_AsStated ==
    p_pc = "done" =>
        LET cands == Candidates(p_entry)
            yielding == {k \in 1..Len(cands) : YieldsNumeric(cands[k])}
        IN IF yielding = {} THEN p_result = NoneResult
           ELSE LET first == CHOOSE k \in yielding : \A j \in yielding : k <= j
                IN p_result = Rub(UnitNormalize(NumericOf(cands[first])))

\* C8 amended: the scan stops at the first present candidate, in alias order,
\* that is a mapping holding the key "value" or is itself a number; it takes
\* the "value" sub-field, or the number.  The result is absent iff there is no
\* such candidate or float() rejects what was taken; otherwise it is the
\* unit-normalized float of what was taken.
C8_StopsAtFirstTaken ==
    p_pc = "done" =>
        LET cands == Candidates(p_entry)
            stops == {k \in 1..Len(cands) :
                         IsValueMap(cands[k]) \/ IsNumber(cands[k])}
        IN IF stops = {} THEN p_result = NoneResult
           ELSE LET first == CHOOSE k \in stops : \A j \in stops : k <= j
                    taken == IF cands[first].t = "map" THEN cands[first].sub
                             ELSE cands[first]
                IN IF taken.t \in {"num", "bool", "numstr"}
                   THEN p_result = Rub(UnitNormalize(taken.v))
                   ELSE p_result = NoneResult

\* An earlier mapping with an unusable "value" hides a later plain number.
C8_Witness ==
    /\ p_pc = "done"
    /\ "price" \in DOMAIN p_entry
    /\ p_entry["price"] = MapWith(Null)
    /\ "salePrice" \in DOMAIN p_entry
    /\ p_entry["salePrice"] = Num(50)
    /\ p_result = NoneResult

(***************************************************************************)
(* is_productish_dict and extract_rows (src/main.py 95-138).               *)
(* An element of a list is a dict, [t |-> "dict", name, title, id, uuid,   *)
(* product_id] with "" for a key that is missing or falsy, or something    *)
(* else, [t |-> "other"].  A mapping is the sequence of its [k, v] pairs   *)
(* in insertion order.                                                     *)
(***************************************************************************)
MaxList == 2
MaxKeys == 2
SampleSize == 10

Dict(name, title, id, uuid, product_id) ==
    [t |-> "dict", name |-> name, title |-> title, id |-> id, uuid |-> uuid,
     product_id |-> product_id]

Other == [t |-> "other"]

Elems ==
    {Other,
     Dict("", "", "", "", ""),
     Dict("x", "", "", "", ""),
     Dict("x", "", "x", "", ""),
     Dict("", "x", "", "x", "")}

ListValue(items) == [t |-> "list", items |-> items]
ScalarValue == [t |-> "scalar", items |-> <<>>]

Values == {ListValue(l) : l \in SeqsUpTo(Elems, MaxList)} \cup {ScalarValue}

KeyPool == {"rows", "result", "weird", "extra"}

\* the tuple of line 119
ConventionalKeys == <<"rows", "products", "items", "data", "result">>

MapData(pairs) == [t |-> "map", items |-> <<>>, pairs |-> pairs]
ListData(items) == [t |-> "list", items |-> items, pairs |-> <<>>]
ScalarData == [t |-> "scalar", items |-> <<>>, pairs |-> <<>>]

DistinctKeys(pairs) ==
    \A a, b \in 1..Len(pairs) : a # b => pairs[a].k # pairs[b].k

ExtractInputs ==
    {MapData(ps) : ps \in {q \in SeqsUpTo([k : KeyPool, v : Values], MaxKeys) :
                              DistinctKeys(q)}}
    \cup {ListData(l) : l \in SeqsUpTo(Elems, MaxList)}
    \cup {ScalarData}

IsDict(x) == x.t = "dict"

\* Python's `a or b` on strings
Or(a, b) == IF a # "" THEN a ELSE b

\* lines 95-101
is_productish_dict(d) ==
    IF ~IsDict(d) THEN FALSE
    ELSE LET name == Or(d.name, d.title)
             pid == Or(Or(d.id, d.uuid), d.product_id)
         IN name # "" /\ pid # ""

\* [x for x in v if isinstance(x, dict)]
DictsOf(items) == SelectSeq(items, IsDict)

\* isinstance(v, list) and v and isinstance(v[0], dict)
IsListOfDicts(v) == v.t = "list" /\ v.items # <<>> /\ IsDict(v.items[1])

\* data.get(key)
Get(pairs, key) ==
    IF \E a \in 1..Len(pairs) : pairs[a].k = key
    THEN pairs[CHOOSE a \in 1..Len(pairs) : pairs[a].k = key].v
    ELSE ScalarValue

\* v[:n]
Take(items, n) == SubSeq(items, 1, Min(n, Len(items)))

\* sum(1 for x in sample if is_productish_dict(x)), sample = v[:10]
Score(items) == Len(SelectSeq(Take(items, SampleSize), is_productish_dict))

\* lines 119-126: index of the first conventional key that matches, 0 if none
RECURSIVE ProbeConventional(_, _)
ProbeConventional(pairs, k) ==
    IF k > Len(ConventionalKeys) THEN 0
    ELSE IF IsListOfDicts(Get(pairs, ConventionalKeys[k])) THEN k
    ELSE ProbeConventional(pairs, k + 1)

\* lines 129-137: `best` after the loop over data.items()
RECURSIVE BestFrom(_, _, _, _)
BestFrom(pairs, a, best, best_score) ==
    IF a > Len(pairs) THEN best
    ELSE LET v == pairs[a].v
         IN IF IsListOfDicts(v) /\ Score(v.items) > best_score
            THEN BestFrom(pairs, a + 1, v.items, Score(v.items))
            ELSE BestFrom(pairs, a + 1, best, best_score)

\* lines 112-138
extract_rows(data) ==
    IF data.t = "list" THEN DictsOf(data.items)
    ELSE IF data.t # "map" THEN <<>>
    ELSE LET k == ProbeConventional(data.pairs, 1)
         IN IF k # 0 THEN DictsOf(Get(data.pairs, ConventionalKeys[k]).items)
            ELSE DictsOf(BestFrom(data.pairs, 1, <<>>, 0))

ExtractIdle == x_data = ScalarData /\ x_result = <<>> /\ x_pc = "idle"

ExtractInit ==
    /\ x_data \in ExtractInputs
    /\ x_result = <<>>
    /\ x_pc = "call"

ExtractRows ==
    /\ x_pc = "call"
    /\ x_result' = extract_rows(x_data)
    /\ x_pc' = "done"
    /\ UNCHANGED x_data
    /\ UNCHANGED <<mainVars, chunkVars, priceVars, pagVars>>

\* C7 as stated: for a mapping in which no conventional key matches, if some
\* value is a non-empty sequence of mappings then the result is the
\* mapping-typed elements of a candidate of maximal score, so the result is
\* empty only if there is no candidate.
C7_AsStated ==
    (x_pc = "done" /\ x_data.t = "map" /\ ProbeConventional(x_data.pairs, 1) = 0) =>
        LET cands == {a \in 1..Len(x_data.pairs) : IsListOfDicts(x_data.pairs[a].v)}
        IN IF cands = {} THEN x_result = <<>>
           ELSE \E a \in cands :
                   /\ \A b \in cands : Score(x_data.pairs[b].v.items)
                                          <= Score(x_data.pairs[a].v.items)
                   /\ x_result = DictsOf(x_data.pairs[a].v.items)

(***************************************************************************)
(* iter_products (src/main.py 239-280).  A page is known by the number of  *)
(* rows extract_rows finds in it; offset and len(all_rows) are counted up  *)
(* to a cap, the cap standing for every larger value.                      *)
(***************************************************************************)
MaxPages == 4
Limit == 100

PageSizes == {0, 1, Limit - 1, Limit, Limit + 1}

PagIdle == i_pc = "idle" /\ i_offset = 0 /\ i_rows = 0 /\ i_all = 0

PagInit == i_pc = "fetch" /\ i_offset = 0 /\ i_rows = 0 /\ i_all = 0

\* lines 250-267: fetch_products_page (which may raise), then extract_rows
FetchPage(ok, n) ==
    /\ i_pc = "fetch"
    /\ IF ok
       THEN i_rows' = n /\ i_pc' = "check"
       ELSE n = 0 /\ i_rows' = 0 /\ i_pc' = "raised"
    /\ UNCHANGED <<i_offset, i_all>>
    /\ UNCHANGED <<mainVars, chunkVars, priceVars, extractVars>>

\* lines 269-278
CheckPage ==
    /\ i_pc = "check"
    /\ IF i_rows = 0
       THEN i_pc' = "returned" /\ UNCHANGED <<i_offset, i_all>>
       ELSE /\ i_all' = Min(i_all + i_rows, MaxPages * (Limit + 1))
            /\ IF i_rows < Limit
               THEN i_pc' = "returned" /\ UNCHANGED i_offset
               ELSE /\ i_offset' = Min(i_offset + Limit, MaxPages * Limit)
                    /\ i_pc' = "fetch"
    /\ UNCHANGED i_rows
    /\ UNCHANGED <<mainVars, chunkVars, priceVars, extractVars>>

\* C4 as stated, for the case it names: if every fetched page yields exactly
\* a full page, iter_products still returns (or raises).
C4_AsStated ==
    <>(i_pc \in {"returned", "raised"} \/ (i_pc = "check" /\ i_rows # Limit))

(***************************************************************************)
(* main() (src/main.py 335-414) and what it calls.                         *)
(* One step per call of a collaborator (tg_send, get_categories,           *)
(* iter_products), each of which may raise; what main() does between two   *)
(* such calls belongs to the step of the later call.  A category's         *)
(* products enter as the rows normalize_product kept.  A message is known  *)
(* by its kind, a date by its day number (0 is None), a price by its       *)
(* hundredths.                                                             *)
(***************************************************************************)
MaxDay == 2
MaxCats == 2
MaxRows == 2
MaxChunks == 2

WORK_START_HOUR == 8
WORK_END_HOUR == 18
HeartbeatMinutes == 30

Ids == {"p1", "p2"}
PriceRubs == {NoneResult, Rub(1000), Rub(1200)}
CatName == "c1"

\* the name the catalog gives a product
NameOf(id) == IF id = "p1" THEN "b" ELSE "A"

\* what normalize_product returns (line 178), the category apart, for
\* products with the given ids and prices
NormalizedRows(ids, prices) ==
    {[id |-> i, name |-> NameOf(i), price_rub |-> q] : i \in ids, q \in prices}

\* a matching category: usable, or without an id (skipped at line 365)
TargetCats == {[id |-> "k1", name |-> CatName], [id |-> "", name |-> CatName]}

Times ==
    {[hour |-> 7, minute |-> 0], [hour |-> 8, minute |-> 0],
     [hour |-> 8, minute |-> 30], [hour |-> 18, minute |-> 0]}

EmptyDict == <<>>

Put(m, k, v) == [x \in DOMAIN m \cup {k} |-> IF x = k THEN v ELSE m[x]]

\* line 56
DefaultState ==
    [initialized |-> FALSE, products |-> EmptyDict, last_heartbeat_date |-> 0]

\* lines 54-58
load_state(file) == IF ~file.exists THEN DefaultState ELSE file.content

\* lines 61-63: the file after save_state(st)
save_state(st) == [exists |-> TRUE, content |-> st]

\* line 285
is_work_time(n) == WORK_START_HOUR <= n.hour /\ n.hour < WORK_END_HOUR

\* lines 290-291
HeartbeatDue(st, n) ==
    /\ n.hour = WORK_START_HOUR
    /\ n.minute < HeartbeatMinutes
    /\ st.last_heartbeat_date # n.day

\* the heartbeat sent and its date not recorded
MarkHeartbeatForgotten(st, today) == st

\* line 293
MarkHeartbeat(st, today) == [st EXCEPT !.last_heartbeat_date = today]

\* lines 370-374: the rows of one category folded into current
RECURSIVE FoldRows(_, _, _)
FoldRows(cur, order, rows) ==
    IF rows = <<>> THEN [cur |-> cur, order |-> order]
    ELSE LET n == Head(rows)
             rec == [name |-> n.name, price_rub |-> n.price_rub,
                     category |-> CatName]
         IN FoldRows(Put(cur, n.id, rec),
                     IF n.id \in DOMAIN cur THEN order ELSE Append(order, n.id),
                     Tail(rows))

\* a comparison that skips a previous price of None
PriceChangedIfTruthy(old, cur) ==
    old.price_rub.some /\ old.price_rub # cur.price_rub

\* line 405: old.get("price_rub") != cur.get("price_rub")
PriceChanged(old, cur) == old.price_rub # cur.price_rub

\* lines 400-406.  An entry of `added` is the dict current[pid], an entry of
\* `changed` the pair (prev[pid], current[pid]); pid tells which.
RECURSIVE DiffFrom(_, _, _, _, _, _)
DiffFrom(prev, cur, order, k, add, chg) ==
    IF k > Len(order) THEN [added |-> add, changed |-> chg]
    ELSE LET pid == order[k]
         IN IF pid \notin DOMAIN prev
            THEN DiffFrom(prev, cur, order, k + 1,
                          Append(add, [pid |-> pid, rec |-> cur[pid]]), chg)
            ELSE IF PriceChanged(prev[pid], cur[pid])
            THEN DiffFrom(prev, cur, order, k + 1, add,
                          Append(chg, [pid |-> pid, old |-> prev[pid],
                                       cur |-> cur[pid]]))
            ELSE DiffFrom(prev, cur, order, k + 1, add, chg)

Diff(prev, cur, order) == DiffFrom(prev, cur, order, 1, <<>>, <<>>)

\* x["name"].lower() as a sort key
NameKey(name) == IF name = "A" THEN 1 ELSE 2

\* the keys of lines 412-413: the name of an added record, the name of the
\* new record of a changed pair
SortKey(x) ==
    IF "rec" \in DOMAIN x THEN NameKey(x.rec.name) ELSE NameKey(x.cur.name)

\* list.sort(key=...): stable, ascending
RECURSIVE InsertByKey(_, _)
InsertByKey(sorted, x) ==
    IF sorted = <<>> THEN <<x>>
    ELSE IF SortKey(x) < SortKey(Head(sorted)) THEN <<x>> \o sorted
    ELSE <<Head(sorted)>> \o InsertByKey(Tail(sorted), x)

RECURSIVE SortByKey(_)
SortByKey(seq) ==
    IF seq = <<>> THEN <<>>
    ELSE InsertByKey(SortByKey(SubSeq(seq, 1, Len(seq) - 1)), seq[Len(seq)])

\* lines 412-413
SortAdded(add) == SortByKey(add)
SortChanged(chg) == SortByKey(chg)

\* current merged into the previous snapshot instead of replacing it
StoreSnapshotCarryingOver(st, cur) ==
    [st EXCEPT !.products =
        [x \in DOMAIN st.products \cup DOMAIN cur |->
            IF x \in DOMAIN cur THEN cur[x] ELSE st.products[x]]]

\* lines 393 and 408: state["products"] = current
StoreSnapshot(st, cur) == [st EXCEPT !.products = cur]

\* the save put off until after send_changes
DiskAfterDiffDeferred(st) == disk

\* line 409: save_state(state), ahead of send_changes
DiskAfterDiff(st) == save_state(st)

Repeat(kind, n) == [k \in 1..n |-> kind]

MainIdle ==
    /\ disk = [exists |-> FALSE, content |-> DefaultState]
    /\ state = DefaultState
    /\ loaded = DefaultState
    /\ now = [day |-> 1, hour |-> 7, minute |-> 0]
    /\ cookie = TRUE
    /\ pc = "idle"
    /\ target_cats = <<>>
    /\ current = EmptyDict
    /\ cur_order = <<>>
    /\ zero_debug = 0
    /\ added = <<>>
    /\ changed = <<>>
    /\ outbox = <<>>
    /\ sent = <<>>
    /\ saves = 0
    /\ fetches = 0
    /\ exit_path = "running"
    /\ abort_at = "none"
    /\ reached_diff = FALSE
    /\ prev_diff = FALSE
    /\ prev_dropped = {}

\* An exception leaves main(): nothing after the raising call runs.
Abort == pc' = "aborted" /\ exit_path' = "aborted" /\ abort_at' = pc

\* lines 336-337: a new process; the scheduler serializes the runs.
Start(n, ck) ==
    /\ pc \in {"idle", "done", "aborted"}
    /\ n.day \in {now.day, now.day + 1}
    /\ n.day <= MaxDay
    /\ now' = n
    /\ cookie' = ck
    /\ state' = load_state(disk)
    /\ loaded' = load_state(disk)
    /\ pc' = "heartbeat"
    /\ target_cats' = <<>>
    /\ current' = EmptyDict
    /\ cur_order' = <<>>
    /\ zero_debug' = 0
    /\ added' = <<>>
    /\ changed' = <<>>
    /\ outbox' = <<>>
    /\ sent' = <<>>
    /\ saves' = 0
    /\ fetches' = 0
    /\ exit_path' = "running"
    /\ abort_at' = "none"
    /\ reached_diff' = FALSE
    /\ prev_diff' = reached_diff
    /\ prev_dropped' = IF reached_diff
                       THEN DOMAIN loaded.products \ DOMAIN current
                       ELSE {}
    /\ UNCHANGED disk
    /\ UNCHANGED <<chunkVars, priceVars, extractVars, pagVars>>

\* line 339, lines 288-293
MaybeHeartbeat(ok) ==
    /\ pc = "heartbeat"
    /\ IF HeartbeatDue(state, now)
       THEN IF ok
            THEN /\ sent' = Append(sent, "heartbeat")
                 /\ state' = MarkHeartbeat(state, now.day)
                 /\ pc' = "worktime"
                 /\ UNCHANGED <<exit_path, abort_at>>
            ELSE Abort /\ UNCHANGED <<sent, state>>
       ELSE /\ ok
            /\ pc' = "worktime"
            /\ UNCHANGED <<sent, state, exit_path, abort_at>>
    /\ UNCHANGED <<disk, loaded, now, cookie, target_cats, current, cur_order,
                   zero_debug, added, changed, outbox, saves, fetches,
                   reached_diff, prev_diff, prev_dropped>>
    /\ UNCHANGED <<chunkVars, priceVars, extractVars, pagVars>>

\* lines 341-343
CheckWorkTime ==
    /\ pc = "worktime"
    /\ IF ~is_work_time(now)
       THEN /\ disk' = save_state(state)
            /\ saves' = saves + 1
            /\ pc' = "done"
            /\ exit_path' = "outside"
       ELSE /\ pc' = "cookie"
            /\ UNCHANGED <<disk, saves, exit_path>>
    /\ UNCHANGED <<state, loaded, now, cookie, target_cats, current, cur_order,
                   zero_debug, added, changed, outbox, sent, fetches, abort_at,
                   reached_diff, prev_diff, prev_dropped>>
    /\ UNCHANGED <<chunkVars, priceVars, extractVars, pagVars>>

\* lines 345-348
CookieWarning(ok) ==
    /\ pc = "cookie"
    /\ IF ~cookie
       THEN IF ok
            THEN /\ sent' = Append(sent, "cookie")
                 /\ pc' = "categories"
                 /\ UNCHANGED <<exit_path, abort_at>>
            ELSE Abort /\ UNCHANGED sent
       ELSE /\ ok
            /\ pc' = "categories"
            /\ UNCHANGED <<sent, exit_path, abort_at>>
    /\ UNCHANGED <<disk, state, loaded, now, cookie, target_cats, current,
                   cur_order, zero_debug, added, changed, outbox, saves, fetches,
                   reached_diff, prev_diff, prev_dropped>>
    /\ UNCHANGED <<chunkVars, priceVars, extractVars, pagVars>>

\* lines 350-351: get_categories (which may raise), then the keyword filter
GetCategories(ok, cats) ==
    /\ pc = "categories"
    /\ IF ok
       THEN /\ target_cats' = cats
            /\ pc' = IF cats = <<>> THEN "nocats" ELSE "fetch"
            /\ UNCHANGED <<exit_path, abort_at>>
       ELSE /\ cats = <<>>
            /\ Abort
            /\ UNCHANGED target_cats
    /\ UNCHANGED <<disk, state, loaded, now, cookie, current, cur_order,
                   zero_debug, added, changed, outbox, sent, saves, fetches,
                   reached_diff, prev_diff, prev_dropped>>
    /\ UNCHANGED <<chunkVars, priceVars, extractVars, pagVars>>

\* lines 353-356
NoCategories(ok) ==
    /\ pc = "nocats"
    /\ IF ok
       THEN /\ sent' = Append(sent, "nocats")
            /\ disk' = save_state(state)
            /\ saves' = saves + 1
            /\ pc' = "done"
            /\ exit_path' = "nocats"
            /\ UNCHANGED abort_at
       ELSE Abort /\ UNCHANGED <<sent, disk, saves>>
    /\ UNCHANGED <<state, loaded, now, cookie, target_cats, current, cur_order,
                   zero_debug, added, changed, outbox, fetches, reached_diff,
                   prev_diff, prev_dropped>>
    /\ UNCHANGED <<chunkVars, priceVars, extractVars, pagVars>>

\* lines 362-383: one pass of `for c in target_cats`; iter_products may raise
FetchCategory(ok, rows) ==
    /\ pc = "fetch"
    /\ LET c == Head(target_cats)
           rest == Tail(target_cats)
           next == IF rest = <<>> THEN "report" ELSE "fetch"
       IN IF c.id = "" \/ c.name = ""
          THEN /\ ok /\ rows = <<>>
               /\ target_cats' = rest
               /\ pc' = next
               /\ UNCHANGED <<current, cur_order, zero_debug, fetches,
                              exit_path, abort_at>>
          ELSE IF ok
          THEN LET f == FoldRows(current, cur_order, rows)
               IN /\ current' = f.cur
                  /\ cur_order' = f.order
                  /\ zero_debug' = zero_debug + (IF rows = <<>> THEN 1 ELSE 0)
                  /\ fetches' = fetches + 1
                  /\ target_cats' = rest
                  /\ pc' = next
                  /\ UNCHANGED <<exit_path, abort_at>>
          ELSE /\ rows = <<>>
               /\ fetches' = fetches + 1
               /\ Abort
               /\ UNCHANGED <<target_cats, current, cur_order, zero_debug>>
    /\ UNCHANGED <<disk, state, loaded, now, cookie, added, changed, outbox,
                   sent, saves, reached_diff, prev_diff, prev_dropped>>
    /\ UNCHANGED <<chunkVars, priceVars, extractVars, pagVars>>

\* line 386 taken, lines 387-391 up to the first tg_send: the full list is
\* nfull messages, the diagnostics (if any category had no rows) ndebug more
BeginFirstRun(nfull, ndebug) ==
    /\ pc = "report"
    /\ ~state.initialized
    /\ (zero_debug = 0) => (ndebug = 1)
    /\ outbox' = Repeat("full", nfull)
                 \o (IF zero_debug > 0 THEN Repeat("debug", ndebug) ELSE <<>>)
    /\ pc' = "send_full"
    /\ UNCHANGED <<disk, state, loaded, now, cookie, target_cats, current,
                   cur_order, zero_debug, added, changed, sent, saves, fetches,
                   exit_path, abort_at, reached_diff, prev_diff, prev_dropped>>
    /\ UNCHANGED <<chunkVars, priceVars, extractVars, pagVars>>

\* one tg_send of lines 305-306 or 390-391; after the last one, lines 392-395
SendFullMessage(ok) ==
    /\ pc = "send_full"
    /\ IF ~ok
       THEN Abort /\ UNCHANGED <<outbox, sent, state, disk, saves>>
       ELSE /\ sent' = Append(sent, Head(outbox))
            /\ outbox' = Tail(outbox)
            /\ IF Tail(outbox) = <<>>
               THEN LET st == StoreSnapshot([state EXCEPT !.initialized = TRUE],
                                            current)
                    IN /\ state' = st
                       /\ disk' = save_state(st)
                       /\ saves' = saves + 1
                       /\ pc' = "done"
                       /\ exit_path' = "first"
                       /\ UNCHANGED abort_at
               ELSE UNCHANGED <<state, disk, saves, pc, exit_path, abort_at>>
    /\ UNCHANGED <<loaded, now, cookie, target_cats, current, cur_order,
                   zero_debug, added, changed, fetches, reached_diff, prev_diff,
                   prev_dropped>>
    /\ UNCHANGED <<chunkVars, priceVars, extractVars, pagVars>>

\* line 386 not taken, lines 397-414 up to the first tg_send: the added part
\* of the report is nadded messages, the changed part nchanged
DiffAndSave(nadded, nchanged) ==
    /\ pc = "report"
    /\ state.initialized
    /\ LET d == Diff(state.products, current, cur_order)
           st == StoreSnapshot(state, current)
       IN /\ (d.added = <<>>) => (nadded = 1)
          /\ (d.changed = <<>>) => (nchanged = 1)
          /\ state' = st
          /\ disk' = DiskAfterDiff(st)
          /\ saves' = saves + 1
          /\ reached_diff' = TRUE
          /\ IF d.added # <<>> \/ d.changed # <<>>
             THEN /\ added' = SortAdded(d.added)
                  /\ changed' = SortChanged(d.changed)
                  /\ outbox' =
                        (IF d.added # <<>> THEN Repeat("added", nadded) ELSE <<>>)
                        \o (IF d.changed # <<>> THEN Repeat("changed", nchanged)
                            ELSE <<>>)
                  /\ pc' = "send_changes"
                  /\ UNCHANGED exit_path
             ELSE /\ added' = d.added
                  /\ changed' = d.changed
                  /\ outbox' = <<>>
                  /\ pc' = "done"
                  /\ exit_path' = "diff"
    /\ UNCHANGED <<loaded, now, cookie, target_cats, current, cur_order,
                   zero_debug, sent, fetches, abort_at, prev_diff, prev_dropped>>
    /\ UNCHANGED <<chunkVars, priceVars, extractVars, pagVars>>

\* one tg_send of lines 330-331
SendChangeMessage(ok) ==
    /\ pc = "send_changes"
    /\ IF ~ok
       THEN Abort /\ UNCHANGED <<outbox, sent>>
       ELSE /\ sent' = Append(sent, Head(outbox))
            /\ outbox' = Tail(outbox)
            /\ IF Tail(outbox) = <<>>
               THEN pc' = "done" /\ exit_path' = "diff" /\ UNCHANGED abort_at
               ELSE UNCHANGED <<pc, exit_path, abort_at>>
    /\ UNCHANGED <<disk, state, loaded, now, cookie, target_cats, current,
                   cur_order, zero_debug, added, changed, saves, fetches,
                   reached_diff, prev_diff, prev_dropped>>
    /\ UNCHANGED <<chunkVars, priceVars, extractVars, pagVars>>

Init == MainIdle /\ ChunkIdle /\ PriceIdle /\ ExtractIdle /\ PagIdle

\* Runs at any of the times, with or without the cookie, over a catalog of one
\* product.
Next ==
    \/ \E d \in 1..MaxDay : \E t \in Times : \E ck \in BOOLEAN :
          Start([day |-> d, hour |-> t.hour, minute |-> t.minute], ck)
    \/ \E ok \in BOOLEAN : MaybeHeartbeat(ok)
    \/ CheckWorkTime
    \/ \E ok \in BOOLEAN : CookieWarning(ok)
    \/ \E ok \in BOOLEAN : \E cats \in SeqsUpTo(TargetCats, MaxCats) :
          GetCategories(ok, cats)
    \/ \E ok \in BOOLEAN : NoCategories(ok)
    \/ \E ok \in BOOLEAN :
          \E rows \in SeqsUpTo(NormalizedRows({"p1"}, PriceRubs),
                               MaxRows) :
             FetchCategory(ok, rows)
    \/ \E nfull, ndebug \in 1..MaxChunks : BeginFirstRun(nfull, ndebug)
    \/ \E ok \in BOOLEAN : SendFullMessage(ok)
    \/ \E nadded, nchanged \in 1..MaxChunks : DiffAndSave(nadded, nchanged)
    \/ \E ok \in BOOLEAN : SendChangeMessage(ok)

Spec == Init /\ [][Next]_vars

\* Runs at 08:30 of one day with the cookie set, over a catalog of two
\* products at three prices.
SnapshotNext ==
    \/ Start([day |-> 1, hour |-> 8, minute |-> 30], TRUE)
    \/ \E ok \in BOOLEAN : MaybeHeartbeat(ok)
    \/ CheckWorkTime
    \/ \E ok \in BOOLEAN : CookieWarning(ok)
    \/ \E ok \in BOOLEAN : \E cats \in SeqsUpTo(TargetCats, MaxCats) :
          GetCategories(ok, cats)
    \/ \E ok \in BOOLEAN : NoCategories(ok)
    \/ \E ok \in BOOLEAN :
          \E rows \in SeqsUpTo(NormalizedRows(Ids, PriceRubs), MaxRows) :
             FetchCategory(ok, rows)
    \/ \E nfull, ndebug \in 1..MaxChunks : BeginFirstRun(nfull, ndebug)
    \/ \E ok \in BOOLEAN : SendFullMessage(ok)
    \/ \E nadded, nchanged \in 1..MaxChunks : DiffAndSave(nadded, nchanged)
    \/ \E ok \in BOOLEAN : SendChangeMessage(ok)

SnapshotSpec == Init /\ [][SnapshotNext]_vars

ChunkSpecInit == ChunkInit /\ MainIdle /\ PriceIdle /\ ExtractIdle /\ PagIdle

ChunkSpec == ChunkSpecInit /\ [][ChunkStep \/ ChunkFinish]_vars

PriceSpecInit == PriceInit /\ MainIdle /\ ChunkIdle /\ ExtractIdle /\ PagIdle

PriceSpec == PriceSpecInit /\ [][ParsePrice]_vars

ExtractSpecInit == ExtractInit /\ MainIdle /\ ChunkIdle /\ PriceIdle /\ PagIdle

ExtractSpec == ExtractSpecInit /\ [][ExtractRows]_vars

PagSpecInit == PagInit /\ MainIdle /\ ChunkIdle /\ PriceIdle /\ ExtractIdle

PagNext ==
    \/ \E ok \in BOOLEAN : \E n \in PageSizes : FetchPage(ok, n)
    \/ CheckPage

PagSpec == PagSpecInit /\ [][PagNext]_vars

\* The interpreter keeps executing the loop: a step that can be taken is taken.
FairPagSpec == PagSpec /\ WF_vars(PagNext)

(***************************************************************************)
(* Properties of main().                                                   *)
(***************************************************************************)
Finished == pc \in {"done", "aborted"}

FullSent == "full" \in Range(sent)

\* send_full_list was called, whether or not its first tg_send got through
FullListStarted == FullSent \/ abort_at = "send_full"

ChangeSent == Range(sent) \cap {"added", "changed"} # {}

\* the run got to line 386
ReachedReport ==
    \/ exit_path \in {"first", "diff"}
    \/ exit_path = "aborted" /\ abort_at \in {"send_full", "send_changes"}

\* C1 as stated: whichever way a run ends, aborted runs included, it has
\* called save_state exactly once.
C1_AsStated == Finished => saves = 1

\* C2 as stated: a run inside working hours that finds no matching category
\* sends exactly one message, fetches no products and saves a state equal to
\* the loaded one in every field.
C2_AsStated ==
    exit_path = "nocats" =>
        /\ Len(sent) = 1
        /\ fetches = 0
        /\ disk.exists
        /\ disk.content = loaded

\* the messages main() sends ahead of the category fetch: the heartbeat when
\* it is due, the warning when the cookie is empty
DueBeforeCategories ==
    (IF /\ now.hour = 8 /\ now.minute < 30
        /\ loaded.last_heartbeat_date # now.day
     THEN <<"heartbeat">> ELSE <<>>)
    \o (IF cookie THEN <<>> ELSE <<"cookie">>)

\* C2 amended: a run inside working hours that finds no matching category
\* fetches no products and sends, after the heartbeat (when due) and the
\* missing-cookie warning (when the cookie is empty), the one "no categories"
\* message; then it saves once a state equal to the loaded one in initialized
\* and snapshot, and in the last heartbeat date unless the heartbeat was sent,
\* which sets it to today.  If sending the "no categories" message fails, the
\* run ends there with nothing saved.
C2_NoCategoryRun ==
    /\ exit_path = "nocats" =>
          /\ now.hour >= 8 /\ now.hour < 18
          /\ sent = DueBeforeCategories \o <<"nocats">>
          /\ fetches = 0
          /\ saves = 1
          /\ disk.exists
          /\ disk.content.initialized = loaded.initialized
          /\ disk.content.products = loaded.products
          /\ disk.content.last_heartbeat_date =
                IF "heartbeat" \in Range(sent) THEN now.day
                ELSE loaded.last_heartbeat_date
    /\ (exit_path = "aborted" /\ abort_at = "nocats") =>
          /\ sent = DueBeforeCategories
          /\ fetches = 0
          /\ saves = 0
          /\ load_state(disk) = loaded

\* A no-category run that also sent the heartbeat and the cookie warning.
C2_Witness ==
    /\ exit_path = "nocats"
    /\ sent = <<"heartbeat", "cookie", "nocats">>
    /\ disk.content.last_heartbeat_date # loaded.last_heartbeat_date

\* C5 as stated: of a finished run that reached the reporting step: it sent
\* the full list iff it loaded initialized = false, and then it sent no change
\* report and saved initialized = true with the current snapshot; having
\* loaded initialized = true it sent a change report only for a non-empty
\* added or changed; and initialized, once true on disk, stays true.
C5_AsStated ==
    /\ (Finished /\ ReachedReport) =>
          /\ FullListStarted <=> ~loaded.initialized
          /\ ~loaded.initialized =>
                /\ ~ChangeSent
                /\ disk.exists
                /\ disk.content.initialized
                /\ disk.content.products = current
          /\ loaded.initialized =>
                (ChangeSent => (added # <<>> \/ changed # <<>>))
    /\ loaded.initialized => (disk.exists /\ disk.content.initialized)

\* C9: a run that loaded initialized = true has saved the new snapshot, once,
\* by the time it sends (or fails to send) any change-report message, so the
\* file then holds the current snapshot; a first run is still unsaved while it
\* sends the full list, and saves only after the last of those messages.
C9_SaveBeforeChangeReport ==
    /\ (pc = "send_changes" \/ abort_at = "send_changes" \/ ChangeSent) =>
          /\ loaded.initialized
          /\ saves = 1
          /\ disk.exists
          /\ disk.content.products = current
    /\ (pc = "send_full" \/ abort_at = "send_full") =>
          /\ ~loaded.initialized
          /\ saves = 0
          /\ load_state(disk) = loaded
    /\ exit_path = "first" =>
          /\ FullSent
          /\ outbox = <<>>
          /\ saves = 1

\* A change report that broke off after its first message, over a snapshot
\* that differs from the loaded one.
C9_Witness ==
    /\ abort_at = "send_changes"
    /\ ChangeSent
    /\ current # loaded.products
    /\ disk.content.products = current

Occurrences(seq, id) == Cardinality({k \in 1..Len(seq) : seq[k].pid = id})

PricesDiffer(a, b) ==
    \/ a.some # b.some
    \/ a.some /\ b.some /\ a.v # b.v

\* C3: after the diff of a non-first run, with prev the loaded snapshot: an id
\* is in added (once, with its current record) iff it is in current and not in
\* prev; it is in changed (once, with its previous and its current record) iff
\* it is in both and the prices differ, two absent prices being equal and an
\* absent and a present one different; an id only in prev is in neither.
C3_DiffMembership ==
    reached_diff =>
        LET prev == loaded.products
        IN \A id \in Ids :
              /\ Occurrences(added, id) =
                    IF id \in DOMAIN current /\ id \notin DOMAIN prev
                    THEN 1 ELSE 0
              /\ Occurrences(changed, id) =
                    IF /\ id \in DOMAIN current
                       /\ id \in DOMAIN prev
                       /\ PricesDiffer(prev[id].price_rub, current[id].price_rub)
                    THEN 1 ELSE 0
              /\ \A k \in 1..Len(added) :
                    added[k].pid = id => added[k].rec = current[id]
              /\ \A k \in 1..Len(changed) :
                    changed[k].pid = id =>
                        changed[k].old = prev[id] /\ changed[k].cur = current[id]

\* A diff with a price that went from absent to present, beside an id that
\* is gone from current.
C3_Witness ==
    /\ reached_diff
    /\ \E k \in 1..Len(changed) :
          ~changed[k].old.price_rub.some /\ changed[k].cur.price_rub.some
    /\ DOMAIN loaded.products \ DOMAIN current # {}

\* C10: once a run has done the diff, the file holds exactly the snapshot
\* built in that run; and an id that the run before dropped (persisted before
\* it, missing from its snapshot) and that is back in this run's snapshot is
\* in this run's added.
C10_SnapshotReplaced ==
    reached_diff =>
        /\ disk.exists
        /\ disk.content.products = current
        /\ prev_diff =>
              \A id \in prev_dropped \cap DOMAIN current :
                 \E k \in 1..Len(added) : added[k].pid = id

\* An id dropped by the run before and back in this one.
C10_Witness ==
    /\ reached_diff
    /\ prev_diff
    /\ prev_dropped \cap DOMAIN current # {}

====
